---------------------------- MODULE Spec2Model ----------------------------
(***************************************************************************)
(* Model of the calendar hook useCalendar (event store, recurrence         *)
(* expansion, conflict detection, filter, load and save effects) and of    *)
(* the event form's submission, of day-planner-dynamic.                    *)
(*                                                                         *)
(* A Date value is the record [day, ms]: day counts calendar days since    *)
(* 1970-01-01 and ms is the time of day in milliseconds.  Local time is    *)
(* taken without daylight-saving shifts, so a calendar day always has      *)
(* 86400000 ms.  Strings that the code only copies are TLA+ strings; the   *)
(* "HH:MM" strings, which the code compares, and the text that the form    *)
(* trims and the filter searches are sequences of character codes.  An     *)
(* optional field that is absent (or undefined) is a field that is not in  *)
(* the DOMAIN of the record.                                               *)
(***************************************************************************)
EXTENDS Integers, Sequences, FiniteSets, TLC

VARIABLES
    events,             \* state.events: the stored instances, in order
    isEventFormOpen,    \* state.isEventFormOpen
    editingEvent,       \* state.editingEvent: <<>> (null) or <<event>>
    now,                \* the clock read by Date.now() and new Date()
    lastOp,             \* the last store operation, its arguments and result
    seed,               \* expansion runs: the event handed to the expander
    runs,               \* expansion runs: the calls made, [at, out]
    storage,            \* localStorage[STORAGE_KEY]: <<>> (null) or <<text>>
    effects,            \* the effects of the last commit still to run
    queued,             \* the setState of the load effect: <<>> or <<events>>
    searchQuery,        \* state.searchQuery, as character codes
    selectedCategory    \* state.selectedCategory: <<>> (null) or <<category>>

vars == <<events, isEventFormOpen, editingEvent, now, lastOp, seed, runs,
          storage, effects, queued, searchQuery, selectedCategory>>

storeVars == <<events, isEventFormOpen, editingEvent, lastOp>>

\* The stored item and the effects that read and write it.
persistVars == <<storage, effects, queued>>

\* The filter's settings.
filterVars == <<searchQuery, selectedCategory>>

-----------------------------------------------------------------------------
(* Calendar arithmetic (date-fns on local dates).                          *)

\* Days since 1970-01-01 of the civil date y-m-d (proleptic Gregorian).
DaysFromCivil(y, m, d) ==
    LET yy  == IF m <= 2 THEN y - 1 ELSE y
        era == yy \div 400
        yoe == yy - era * 400
        mp  == IF m > 2 THEN m - 3 ELSE m + 9
        doy == ((153 * mp + 2) \div 5) + d - 1
        doe == yoe * 365 + (yoe \div 4) - (yoe \div 100) + doy
    IN  era * 146097 + doe - 719468

\* The civil date [y, m, d] of a day count.
CivilFromDays(z) ==
    LET zz  == z + 719468
        era == zz \div 146097
        doe == zz - era * 146097
        yoe == (doe - (doe \div 1460) + (doe \div 36524) - (doe \div 146096)) \div 365
        doy == doe - (365 * yoe + (yoe \div 4) - (yoe \div 100))
        mp  == (5 * doy + 2) \div 153
        dd  == doy - ((153 * mp + 2) \div 5) + 1
        mm  == IF mp < 10 THEN mp + 3 ELSE mp - 9
    IN  [y |-> yoe + era * 400 + (IF mm <= 2 THEN 1 ELSE 0), m |-> mm, d |-> dd]

IsLeap(y) == (y % 4 = 0 /\ y % 100 # 0) \/ y % 400 = 0

DaysInMonth(y, m) ==
    IF m = 2 THEN (IF IsLeap(y) THEN 29 ELSE 28)
    ELSE IF m \in {4, 6, 9, 11} THEN 30 ELSE 31

\* new Date(y, m-1, d) with a time of day.
MkDate(y, m, d, ms) == [day |-> DaysFromCivil(y, m, d), ms |-> ms]

\* date-fns addDays: the calendar day moves, the time of day stays.
AddDays(date, amount) == [date EXCEPT !.day = @ + amount]

\* date-fns addWeeks(date, n) = addDays(date, 7 n).
AddWeeks(date, amount) == AddDays(date, 7 * amount)

\* date-fns addMonths: the same day of the month `amount` months on, or the
\* last day of that month when it has no such day; the time of day stays.
AddMonths(date, amount) ==
    LET c   == CivilFromDays(date.day)
        idx == c.y * 12 + (c.m - 1) + amount
        ty  == idx \div 12
        tm  == (idx % 12) + 1
        dim == DaysInMonth(ty, tm)
        td  == IF c.d >= dim THEN dim ELSE c.d
    IN  [day |-> DaysFromCivil(ty, tm, td), ms |-> date.ms]

\* Date.prototype.getDay: 0 = Sunday .. 6 = Saturday (1970-01-01: Thursday).
GetDay(date) == (date.day + 4) % 7

\* date-fns isBefore / isAfter: comparison of the instants.
IsBefore(a, b) == a.day < b.day \/ (a.day = b.day /\ a.ms < b.ms)

\* A faulty variant of isAfter: "not before", true of equal instants too.
IsAfter_OrEqual(a, b) == ~IsBefore(a, b)

IsAfter(a, b) == IsBefore(b, a)

\* date-fns isSameDay: the same calendar day, whatever the time of day.
IsSameDay(a, b) == a.day = b.day

Pad(n, width) ==
    LET s == ToString(n)
    IN  IF width = 2 /\ n < 10 THEN "0" \o s
        ELSE IF width = 4 /\ n < 10 THEN "000" \o s
        ELSE IF width = 4 /\ n < 100 THEN "00" \o s
        ELSE IF width = 4 /\ n < 1000 THEN "0" \o s
        ELSE IF width = 5 /\ n < 10 THEN "0000" \o s
        ELSE IF width = 5 /\ n < 100 THEN "000" \o s
        ELSE IF width = 5 /\ n < 1000 THEN "00" \o s
        ELSE IF width = 5 /\ n < 10000 THEN "0" \o s
        ELSE s

\* date-fns format(date, 'yyyy-MM-dd'): the calendar day, zero padded; the
\* time of day is dropped.
FormatYMD(date) ==
    LET c == CivilFromDays(date.day)
    IN  Pad(c.y, 4) \o "-" \o Pad(c.m, 2) \o "-" \o Pad(c.d, 2)

\* Date.now().toString(): the decimal digits of day * 86400000 + ms, built
\* from two halves of five digits so that no intermediate exceeds 32 bits.
NowString(t) ==
    LET hi == t.day * 864 + (t.ms \div 100000)
        lo == t.ms % 100000
    IN  IF hi = 0 THEN ToString(lo) ELSE ToString(hi) \o Pad(lo, 5)

-----------------------------------------------------------------------------
(* Records and JavaScript object operations.                               *)

Has(r, k) == k \in DOMAIN r

\* { ...a, ...b }: the fields of a, overwritten or extended by those of b.
Spread(a, b) ==
    [k \in DOMAIN a \cup DOMAIN b |-> IF k \in DOMAIN b THEN b[k] ELSE a[k]]

\* The record r without the fields in ks (fields set to undefined).
Without(r, ks) == [k \in DOMAIN r \ ks |-> r[k]]

\* Array.prototype.includes on a sequence.
Includes(s, x) == \E i \in 1..Len(s) : s[i] = x

-----------------------------------------------------------------------------
(* generateRecurringEvents.                                                *)

RecurrenceTypes == {"daily", "weekly", "monthly", "custom"}

\* const { type, interval = 1, daysOfWeek, endDate, occurrences } = recurrence
RuleInterval(rule) == IF Has(rule, "interval") THEN rule.interval ELSE 1

\* A faulty variant of the count cap: the seed is not counted.
MaxOccurrences_SeedNotCounted(rule) ==
    IF Has(rule, "occurrences") /\ rule.occurrences # 0
    THEN rule.occurrences + 1 ELSE 365

\* occurrences || 365: an absent count, and a count of 0, give the cap.
MaxOccurrences(rule) ==
    IF Has(rule, "occurrences") /\ rule.occurrences # 0
    THEN rule.occurrences ELSE 365

\* A faulty variant of the date cap: the rule's endDate is not read.
MaxEndDate_DefaultOnly(rule, today) == AddMonths(today, 12)

\* endDate || addMonths(new Date(), 12)
MaxEndDate(rule, today) ==
    IF Has(rule, "endDate") THEN rule.endDate ELSE AddMonths(today, 12)

\* The inner loop of the weekly case: the first day from `date` on whose
\* weekday is listed.  It ends only if some listed weekday is in 0..6.
RECURSIVE NextListedDay(_, _)
NextListedDay(date, daysOfWeek) ==
    IF Includes(daysOfWeek, GetDay(date)) THEN date
    ELSE NextListedDay(AddDays(date, 1), daysOfWeek)

\* A faulty variant of the switch: the weekly case steps by interval weeks
\* even when weekdays are listed.
NextDate_WeeklyByInterval(rule, currentDate) ==
    CASE rule.type = "daily"   -> AddDays(currentDate, RuleInterval(rule))
      [] rule.type = "weekly"  -> AddWeeks(currentDate, RuleInterval(rule))
      [] rule.type = "monthly" -> AddMonths(currentDate, RuleInterval(rule))
      [] rule.type = "custom"  -> AddDays(currentDate, RuleInterval(rule))

\* The switch on the rule's type: the date after currentDate.
NextDate(rule, currentDate) ==
    CASE rule.type = "daily"   -> AddDays(currentDate, RuleInterval(rule))
      [] rule.type = "weekly"  ->
            IF Has(rule, "daysOfWeek") /\ Len(rule.daysOfWeek) > 0
            THEN NextListedDay(AddDays(currentDate, 1), rule.daysOfWeek)
            ELSE AddWeeks(currentDate, RuleInterval(rule))
      [] rule.type = "monthly" -> AddMonths(currentDate, RuleInterval(rule))
      [] rule.type = "custom"  -> AddDays(currentDate, RuleInterval(rule))

\* A faulty variant of the generated occurrence: originalDate is the
\* occurrence's own date.
RecurringEvent_OwnDate(event, nextDate) ==
    Spread(event, [id           |-> event.id \o "-" \o FormatYMD(nextDate),
                   date         |-> nextDate,
                   originalDate |-> nextDate,
                   isRecurring  |-> TRUE])

\* The generated occurrence on nextDate.
RecurringEvent(event, nextDate) ==
    Spread(event, [id           |-> event.id \o "-" \o FormatYMD(nextDate),
                   date         |-> nextDate,
                   originalDate |-> event.date,
                   isRecurring  |-> TRUE])

\* A faulty variant of the loop: its condition lets count reach
\* maxOccurrences + 1.
LoopStep_OneMore(event, maxOccurrences, maxEndDate, st) ==
    IF st.done THEN st
    ELSE IF ~(st.count <= maxOccurrences /\ IsBefore(st.currentDate, maxEndDate))
    THEN [st EXCEPT !.done = TRUE]
    ELSE IF event.recurrence.type \notin RecurrenceTypes
    THEN [st EXCEPT !.done = TRUE]
    ELSE LET nextDate == NextDate(event.recurrence, st.currentDate)
         IN  IF IsAfter(nextDate, maxEndDate) THEN [st EXCEPT !.done = TRUE]
             ELSE [events      |-> Append(st.events, RecurringEvent(event, nextDate)),
                   currentDate |-> nextDate,
                   count       |-> st.count + 1,
                   done        |-> FALSE]

\* One iteration of the while loop on the loop's variables
\* [events, currentDate, count, done]; done is set where the loop exits
\* (its condition fails, the default case returns, or the break is taken).
LoopStep(event, maxOccurrences, maxEndDate, st) ==
    IF st.done THEN st
    ELSE IF ~(st.count < maxOccurrences /\ IsBefore(st.currentDate, maxEndDate))
    THEN [st EXCEPT !.done = TRUE]
    ELSE IF event.recurrence.type \notin RecurrenceTypes
    THEN [st EXCEPT !.done = TRUE]
    ELSE LET nextDate == NextDate(event.recurrence, st.currentDate)
         IN  IF IsAfter(nextDate, maxEndDate) THEN [st EXCEPT !.done = TRUE]
             ELSE [events      |-> Append(st.events, RecurringEvent(event, nextDate)),
                   currentDate |-> nextDate,
                   count       |-> st.count + 1,
                   done        |-> FALSE]

\* n iterations of the loop from st (halved, to keep the evaluation shallow).
RECURSIVE LoopSteps(_, _, _, _, _)
LoopSteps(event, maxOccurrences, maxEndDate, st, n) ==
    IF n <= 0 \/ st.done THEN st
    ELSE IF n = 1 THEN LoopStep(event, maxOccurrences, maxEndDate, st)
    ELSE LET half == LoopSteps(event, maxOccurrences, maxEndDate, st, n \div 2)
         IN  LoopSteps(event, maxOccurrences, maxEndDate, half, n - (n \div 2))

\* generateRecurringEvents(event), with `today` the value of new Date().
\* count starts at 1 and grows by one per pushed event, so the loop's
\* condition fails after at most maxOccurrences iterations.
GenerateRecurringEvents(event, today) ==
    IF ~Has(event, "recurrence") \/ event.recurrence.type = "none"
    THEN <<event>>
    ELSE LET maxOccurrences == MaxOccurrences(event.recurrence)
             maxEndDate     == MaxEndDate(event.recurrence, today)
             st0 == [events |-> <<event>>, currentDate |-> event.date,
                     count |-> 1, done |-> FALSE]
         IN  LoopSteps(event, maxOccurrences, maxEndDate, st0,
                       maxOccurrences).events

-----------------------------------------------------------------------------
(* The store operations of useCalendar.                                    *)

\* The new collection of addEvent: the seed gets Date.now().toString() as
\* its id, is expanded, and the result is appended.
AddEventResult(evs, eventData, clock) ==
    LET newEvent    == Spread(eventData, [id |-> NowString(clock)])
        eventsToAdd == GenerateRecurringEvents(newEvent, clock)
    IN  evs \o eventsToAdd

\* { ...event, ...eventData } for a partial event given as the fields it
\* sets and the names of the fields it carries as undefined.
MergeFields(event, eventData) ==
    Spread(Without(event, eventData.unset), eventData.set)

\* A faulty variant of updateEvent: the whole series of the target (the
\* instances with its title) is updated.
UpdateEvent_WholeSeries(evs, eventId, eventData) ==
    [i \in 1..Len(evs) |->
        IF \E j \in 1..Len(evs) : evs[j].id = eventId /\ evs[j].title = evs[i].title
        THEN MergeFields(evs[i], eventData) ELSE evs[i]]

\* The new collection of updateEvent.
UpdateEventResult(evs, eventId, eventData) ==
    [i \in 1..Len(evs) |->
        IF evs[i].id = eventId THEN MergeFields(evs[i], eventData) ELSE evs[i]]

\* A faulty variant of deleteEvent: splice(findIndex(id), 1), which removes
\* the last instance when findIndex returns -1.
DeleteEvent_Splice(evs, eventId) ==
    LET hits == {i \in 1..Len(evs) : evs[i].id = eventId}
        idx  == IF hits = {} THEN Len(evs)
                ELSE CHOOSE i \in hits : \A j \in hits : i <= j
    IN  [k \in 1..(IF Len(evs) = 0 THEN 0 ELSE Len(evs) - 1) |->
            IF k < idx THEN evs[k] ELSE evs[k + 1]]

\* The new collection of deleteEvent.
DeleteEventResult(evs, eventId) ==
    LET Keep(event) == event.id # eventId
    IN  SelectSeq(evs, Keep)

\* The new collection of moveEvent.
MoveEventResult(evs, eventId, newDate) ==
    [i \in 1..Len(evs) |->
        IF evs[i].id = eventId THEN Spread(evs[i], [date |-> newDate])
        ELSE evs[i]]

\* s1 <= s2 on strings given as sequences of character codes (the order of
\* JavaScript's <= on strings).
RECURSIVE StrLeq(_, _)
StrLeq(s1, s2) ==
    IF s1 = <<>> THEN TRUE
    ELSE IF s2 = <<>> THEN FALSE
    ELSE IF Head(s1) < Head(s2) THEN TRUE
    ELSE IF Head(s1) > Head(s2) THEN FALSE
    ELSE StrLeq(Tail(s1), Tail(s2))

\* event.endTime || event.time: an absent and an empty end are falsy.
EndOrStart(event) ==
    IF Has(event, "endTime") /\ event.endTime # <<>> THEN event.endTime
    ELSE event.time

\* A faulty variant of the overlap test: touching intervals do not conflict.
Conflicts_Strict(event, newEvent, excludeId) ==
    IF excludeId # "" /\ event.id = excludeId THEN FALSE
    ELSE IF ~IsSameDay(event.date, newEvent.date) THEN FALSE
    ELSE /\ ~StrLeq(EndOrStart(newEvent), event.time)
         /\ ~StrLeq(EndOrStart(event), newEvent.time)

\* The filter predicate of checkEventConflict; excludeId "" stands for an
\* omitted argument (undefined and "" are both falsy).
Conflicts(event, newEvent, excludeId) ==
    IF excludeId # "" /\ event.id = excludeId THEN FALSE
    ELSE IF ~IsSameDay(event.date, newEvent.date) THEN FALSE
    ELSE /\ StrLeq(event.time, EndOrStart(newEvent))
         /\ StrLeq(newEvent.time, EndOrStart(event))

\* checkEventConflict(newEvent, excludeId).
CheckEventConflict(evs, newEvent, excludeId) ==
    LET Keep(event) == Conflicts(event, newEvent, excludeId)
    IN  SelectSeq(evs, Keep)

-----------------------------------------------------------------------------
(* The stored item: JSON.stringify(state.events) and its reading back.     *)
(*                                                                         *)
(* The text of the item is [empty, parses] with, when it parses, the value *)
(* JSON.parse returns.  A JSON value is tagged: [null |-> TRUE],           *)
(* [string |-> characters], [array |-> items] or [object |-> fields].      *)
(* Inside an event's fields only the values the code converts (dates) are  *)
(* tagged; the fields it copies stay as they are.                          *)

\* A Date whose time value is NaN.
InvalidDate == [nan |-> TRUE]

\* n as `width` decimal digits (character codes).
Digits(n, width) == [i \in 1..width |-> 48 + ((n \div (10 ^ (width - i))) % 10)]

\* A faulty variant of the serialized date: the calendar day alone.
ToISOString_DateOnly(date) ==
    LET c == CivilFromDays(date.day)
    IN  Digits(c.y, 4) \o <<45>> \o Digits(c.m, 2) \o <<45>> \o Digits(c.d, 2)

\* Date.prototype.toISOString: "YYYY-MM-DDTHH:mm:ss.sssZ" ('-' = 45,
\* 'T' = 84, ':' = 58, '.' = 46, 'Z' = 90).
ToISOString(date) ==
    LET c == CivilFromDays(date.day)
    IN  Digits(c.y, 4) \o <<45>> \o Digits(c.m, 2) \o <<45>> \o Digits(c.d, 2)
        \o <<84>> \o Digits(date.ms \div 3600000, 2)
        \o <<58>> \o Digits((date.ms \div 60000) % 60, 2)
        \o <<58>> \o Digits((date.ms \div 1000) % 60, 2)
        \o <<46>> \o Digits(date.ms % 1000, 3) \o <<90>>

\* Date.prototype.toJSON: null for an invalid date.
JsonDate(date) ==
    IF date = InvalidDate THEN [null |-> TRUE]
    ELSE [string |-> ToISOString(date)]

\* The number written with the digits s[i..j]; -1 when one is not a digit.
RECURSIVE Num(_, _, _)
Num(s, i, j) ==
    IF j < i THEN 0
    ELSE LET rest == Num(s, i, j - 1)
         IN  IF rest < 0 \/ s[j] < 48 \/ s[j] > 57 THEN -1
             ELSE rest * 10 + (s[j] - 48)

\* new Date(string) for the ISO forms "YYYY-MM-DD" and
\* "YYYY-MM-DDTHH:mm:ss.sssZ"; any other string gives an invalid date.
ParseDate(s) ==
    LET dateOk == /\ Len(s) \in {10, 24}
                  /\ s[5] = 45 /\ s[8] = 45
                  /\ Num(s, 1, 4) >= 0
                  /\ Num(s, 6, 7) \in 1..12
                  /\ Num(s, 9, 10) \in 1..DaysInMonth(Num(s, 1, 4), Num(s, 6, 7))
        timeOk == /\ s[11] = 84 /\ s[14] = 58 /\ s[17] = 58 /\ s[20] = 46
                  /\ s[24] = 90
                  /\ Num(s, 12, 13) \in 0..23
                  /\ Num(s, 15, 16) \in 0..59
                  /\ Num(s, 18, 19) \in 0..59
                  /\ Num(s, 21, 23) >= 0
    IN  IF ~dateOk THEN InvalidDate
        ELSE IF Len(s) = 10
        THEN MkDate(Num(s, 1, 4), Num(s, 6, 7), Num(s, 9, 10), 0)
        ELSE IF ~timeOk THEN InvalidDate
        ELSE MkDate(Num(s, 1, 4), Num(s, 6, 7), Num(s, 9, 10),
                    Num(s, 12, 13) * 3600000 + Num(s, 15, 16) * 60000
                        + Num(s, 18, 19) * 1000 + Num(s, 21, 23))

\* Whether the field k of r is truthy: present, not null, not "".
Truthy(r, k) ==
    /\ Has(r, k)
    /\ ~Has(r[k], "null")
    /\ Has(r[k], "string") => r[k].string # <<>>

\* new Date(r.k): an invalid date for undefined, the epoch for null.
NewDate(r, k) ==
    IF ~Has(r, k) THEN InvalidDate
    ELSE IF Has(r[k], "null") THEN MkDate(1970, 1, 1, 0)
    ELSE IF Has(r[k], "string") THEN ParseDate(r[k].string)
    ELSE InvalidDate

\* What JSON.stringify writes for a recurrence rule.
JsonRule(rule) ==
    IF Has(rule, "endDate")
    THEN Spread(rule, [endDate |-> JsonDate(rule.endDate)])
    ELSE rule

\* What JSON.stringify writes for an event: its fields, the dates as
\* strings; fields that are undefined are not written.
JsonEvent(event) ==
    LET dates == [k \in DOMAIN event \cap {"date", "originalDate"} |->
                     JsonDate(event[k])]
        rule  == IF Has(event, "recurrence")
                 THEN [recurrence |-> JsonRule(event.recurrence)] ELSE <<>>
    IN  [object |-> Spread(Spread(event, dates), rule)]

\* A faulty variant of the save: only the instance last in the collection
\* is written.
JsonStringify_LastOnly(evs) ==
    [empty |-> FALSE, parses |-> TRUE,
     value |-> [array |-> IF evs = <<>> THEN <<>>
                          ELSE <<JsonEvent(evs[Len(evs)])>>]]

\* JSON.stringify(state.events): the text of the whole collection.
JsonStringify(evs) ==
    [empty |-> FALSE, parses |-> TRUE,
     value |-> [array |-> [i \in 1..Len(evs) |-> JsonEvent(evs[i])]]]

\* The rule the load effect rebuilds from a stored one.
LoadedRule(rule) ==
    IF Truthy(rule, "endDate")
    THEN Spread(rule, [endDate |-> NewDate(rule, "endDate")])
    ELSE Without(rule, {"endDate"})

\* The event the load effect rebuilds from the fields of a stored one.
LoadedEvent(fields) ==
    LET original == IF Truthy(fields, "originalDate")
                    THEN [originalDate |-> NewDate(fields, "originalDate")]
                    ELSE <<>>
        rule     == IF Truthy(fields, "recurrence")
                    THEN [recurrence |-> LoadedRule(fields.recurrence)]
                    ELSE <<>>
    IN  Spread(Spread(Spread(Without(fields, {"originalDate", "recurrence"}),
                             [date |-> NewDate(fields, "date")]),
                      original), rule)

\* The fields { ...item } spreads: those of an object, none otherwise.
FieldsOf(item) == IF Has(item, "object") THEN item.object ELSE <<>>

\* The load effect's body for the stored item (<<>> for null): the events it
\* hands to setState, or nothing when the item is null or "" or when
\* JSON.parse, .map or event.date throws (the catch only logs).
LoadEvents(item) ==
    IF item = <<>> \/ item[1].empty THEN [set |-> FALSE]
    ELSE IF ~item[1].parses THEN [set |-> FALSE]
    ELSE IF ~Has(item[1].value, "array") THEN [set |-> FALSE]
    ELSE IF \E i \in 1..Len(item[1].value.array) :
                Has(item[1].value.array[i], "null") THEN [set |-> FALSE]
    ELSE [set |-> TRUE,
          events |-> [i \in 1..Len(item[1].value.array) |->
                         LoadedEvent(FieldsOf(item[1].value.array[i]))]]

-----------------------------------------------------------------------------
(* Inputs.                                                                 *)

MaxOps == 3         \* mutating store operations in one behaviour
MaxQueryOps == 2    \* conflict queries are made after at most this many
MaxTicks == 1       \* clock advances in one behaviour
MaxRuns == 2        \* expander calls in one expansion behaviour
MaxDays == 1        \* days that pass in one expansion behaviour

\* The string "HH:MM" as character codes ('0' = 48, ':' = 58).
HHMM(h, m) ==
    <<48 + (h \div 10), 48 + (h % 10), 58, 48 + (m \div 10), 48 + (m % 10)>>

Wed == MkDate(2024, 1, 31, 0)       \* a Wednesday, at midnight
Thu == MkDate(2024, 2, 1, 0)

\* The clock at start: the morning of that Wednesday.
Clock0 == MkDate(2024, 1, 31, 30600000)

\* What EventForm.handleSubmit builds from the form's fields.
EventData(title, category, date, time, endTime) ==
    [title |-> title, description |-> "", date |-> date, time |-> time,
     endTime |-> endTime, color |-> "#3B82F6", category |-> category]

WithRecurrence(eventData, rule) == Spread(eventData, [recurrence |-> rule])

\* The events submitted to the store; the second has the form's default
\* date, new Date(), with its time of day.
Drafts ==
    { EventData("Gym", "Health", Wed, HHMM(9, 0), HHMM(10, 0)),
      WithRecurrence(EventData("Run", "Health", Clock0, HHMM(9, 0), HHMM(9, 59)),
                     [type |-> "custom", interval |-> 1, daysOfWeek |-> <<>>,
                      occurrences |-> 2]),
      WithRecurrence(EventData("Standup", "Work", Wed, HHMM(10, 0), HHMM(11, 0)),
                     [type |-> "daily", interval |-> 1, daysOfWeek |-> <<>>,
                      occurrences |-> 3]),
      WithRecurrence(EventData("Review", "Work", Thu, HHMM(10, 0), <<>>),
                     [type |-> "weekly", interval |-> 1, daysOfWeek |-> <<1, 5>>,
                      endDate |-> AddDays(Thu, 4)]) }

\* The partial events handed to updateEvent.
Patches ==
    { [set |-> [title |-> "Yoga", time |-> HHMM(10, 0), endTime |-> HHMM(11, 0)],
       unset |-> {"recurrence"}],
      [set |-> [date |-> Thu], unset |-> {}] }

MoveDates == {Wed, AddDays(Thu, 1)}

\* An optional field: the record with field name when opt = <<value>>, the
\* empty record when opt = <<>>.
Opt(name, opt) == IF opt = <<>> THEN <<>> ELSE name :> opt[1]

\* The rules the form can build for an event on `date`.
ExpandRules(date) ==
    { [type |-> "none", interval |-> 1, daysOfWeek |-> <<>>] } \cup
    { Spread(Spread([type |-> t, interval |-> i, daysOfWeek |-> d],
                    Opt("endDate", e)), Opt("occurrences", o)) :
        t \in RecurrenceTypes, i \in {1, 2},
        d \in {<<>>, <<1, 5>>, <<3>>},
        e \in {<<>>, <<AddDays([date EXCEPT !.ms = 0], 3)>>,
                <<AddDays([date EXCEPT !.ms = 0], 45)>>},
        o \in {<<>>, <<5>>} }

\* The dates of the expanded events: days 15, 29, 30 and 31 of a month, a
\* day with a time of day (the form's default, new Date()), and a day more
\* than twelve months after the clock.
ExpandDates ==
    { MkDate(2024, 1, 15, 0), MkDate(2024, 1, 29, 0), MkDate(2024, 1, 30, 0),
      Wed, Clock0, MkDate(2025, 3, 1, 0) }

\* The events handed to generateRecurringEvents: as addEvent builds them.
ExpandSeed(date, rule) ==
    Spread(WithRecurrence(
               EventData("Standup", "Work", date, HHMM(10, 0), HHMM(11, 0)), rule),
           [id |-> NowString(Clock0)])

ExpandSeeds ==
    UNION { {ExpandSeed(date, rule) : rule \in ExpandRules(date)} :
            date \in ExpandDates }

IdsOf(evs) == {evs[i].id : i \in 1..Len(evs)}

\* The identities operations are called with: the stored ones and one that
\* no instance has.
TargetIds == IdsOf(events) \cup {"nonexistent"}

-----------------------------------------------------------------------------
(* The store as a state machine.                                           *)

Init ==
    /\ events = <<>>
    /\ isEventFormOpen = FALSE
    /\ editingEvent = <<>>
    /\ now = Clock0
    /\ lastOp = [op |-> "init", n |-> 0]
    /\ seed = [id |-> "0"]
    /\ runs = <<>>
    /\ storage = <<>>
    /\ effects = <<>>
    /\ queued = <<>>
    /\ searchQuery = <<>>
    /\ selectedCategory = <<>>

\* Time passes: the clock shows the next millisecond.
Tick ==
    /\ now.ms < Clock0.ms + MaxTicks
    /\ now' = [now EXCEPT !.ms = @ + 1]
    /\ UNCHANGED <<storeVars, seed, runs, persistVars, filterVars>>

AddEvent(eventData) ==
    /\ lastOp.n < MaxOps
    /\ events' = AddEventResult(events, eventData, now)
    /\ isEventFormOpen' = FALSE
    /\ editingEvent' = <<>>
    /\ lastOp' = [op |-> "addEvent", n |-> lastOp.n + 1, id |-> NowString(now),
                  before |-> Len(events)]
    /\ UNCHANGED <<now, seed, runs, persistVars, filterVars>>

UpdateEvent(eventId, eventData) ==
    /\ lastOp.n < MaxOps
    /\ events' = UpdateEventResult(events, eventId, eventData)
    /\ isEventFormOpen' = FALSE
    /\ editingEvent' = <<>>
    /\ lastOp' = [op |-> "updateEvent", n |-> lastOp.n + 1, id |-> eventId,
                  eventData |-> eventData]
    /\ UNCHANGED <<now, seed, runs, persistVars, filterVars>>

DeleteEvent(eventId) ==
    /\ lastOp.n < MaxOps
    /\ events' = DeleteEventResult(events, eventId)
    /\ isEventFormOpen' = FALSE
    /\ editingEvent' = <<>>
    /\ lastOp' = [op |-> "deleteEvent", n |-> lastOp.n + 1, id |-> eventId]
    /\ UNCHANGED <<now, seed, runs, persistVars, filterVars>>

MoveEvent(eventId, newDate) ==
    /\ lastOp.n < MaxOps
    /\ events' = MoveEventResult(events, eventId, newDate)
    /\ lastOp' = [op |-> "moveEvent", n |-> lastOp.n + 1, id |-> eventId,
                  newDate |-> newDate]
    /\ UNCHANGED <<isEventFormOpen, editingEvent, now, seed, runs, persistVars,
                   filterVars>>

\* A call of checkEventConflict; the collection does not change, and the
\* call and its result are kept in lastOp.
CheckConflict(newEvent, excludeId) ==
    /\ lastOp.n <= MaxQueryOps
    /\ lastOp' = [op |-> "checkEventConflict", n |-> lastOp.n,
                  newEvent |-> newEvent, excludeId |-> excludeId,
                  result |-> CheckEventConflict(events, newEvent, excludeId)]
    /\ UNCHANGED <<events, isEventFormOpen, editingEvent, now, seed, runs,
                   persistVars, filterVars>>

Next ==
    \/ Tick
    \/ \E d \in Drafts : AddEvent(d)
    \/ \E id \in TargetIds, p \in Patches : UpdateEvent(id, p)
    \/ \E id \in TargetIds : DeleteEvent(id)
    \/ \E id \in TargetIds, d \in MoveDates : MoveEvent(id, d)
    \/ \E d \in Drafts, x \in IdsOf(events) \cup {""} :
            CheckConflict(Spread(d, [id |-> "temp"]), x)

Spec == Init /\ [][Next]_vars

-----------------------------------------------------------------------------
(* generateRecurringEvents on its own: one event, expanded at several      *)
(* times.                                                                  *)

InitExpand ==
    /\ events = <<>>
    /\ isEventFormOpen = FALSE
    /\ editingEvent = <<>>
    /\ now = Clock0
    /\ lastOp = [op |-> "init", n |-> 0]
    /\ seed \in ExpandSeeds
    /\ runs = <<>>
    /\ storage = <<>>
    /\ effects = <<>>
    /\ queued = <<>>
    /\ searchQuery = <<>>
    /\ selectedCategory = <<>>

\* A day passes.
DayPasses ==
    /\ now.day < Clock0.day + MaxDays
    /\ now' = AddDays(now, 1)
    /\ UNCHANGED <<storeVars, seed, runs, persistVars, filterVars>>

\* A call generateRecurringEvents(seed) at the present time.
Expand ==
    /\ Len(runs) < MaxRuns
    /\ runs' = Append(runs, [at |-> now, out |-> GenerateRecurringEvents(seed, now)])
    /\ UNCHANGED <<storeVars, now, seed, persistVars, filterVars>>

NextExpand == DayPasses \/ Expand

SpecExpand == InitExpand /\ [][NextExpand]_vars

-----------------------------------------------------------------------------
(* The mounted hook and the stored item: the load effect and the save      *)
(* effect run after the first render, in that order; the save effect runs  *)
(* again after every render in which state.events is a new array.          *)

MaxStoredOps == 2   \* mutating store operations in one persistence behaviour
MaxMounts == 2      \* times the hook is mounted in one persistence behaviour

\* JSON text of a value.
Json(value) == [empty |-> FALSE, parses |-> TRUE, value |-> value]

\* A collection as an earlier session left it: a daily series of three.
SavedEvents ==
    AddEventResult(<<>>,
        WithRecurrence(EventData("Standup", "Work", Wed, HHMM(10, 0), HHMM(11, 0)),
                       [type |-> "daily", interval |-> 1, daysOfWeek |-> <<>>,
                        occurrences |-> 3]),
        MkDate(2024, 1, 30, 72000000))

\* What the stored item can hold when the hook is first mounted: nothing,
\* "", text that is not JSON, JSON that is not an array (null, an object),
\* an array of null, an array of an object that is not an event, the empty
\* collection, and a saved collection.
StoredItems ==
    { <<>>,
      <<[empty |-> TRUE, parses |-> FALSE]>>,
      <<[empty |-> FALSE, parses |-> FALSE]>>,
      <<Json([null |-> TRUE])>>,
      <<Json([object |-> [events |-> [array |-> <<>>]]])>>,
      <<Json([array |-> <<[null |-> TRUE]>>])>>,
      <<Json([array |-> <<[object |-> [id |-> "x"]]>>])>>,
      <<JsonStringify(<<>>)>>,
      <<JsonStringify(SavedEvents)>> }

InitPersist ==
    /\ events = <<>>
    /\ isEventFormOpen = FALSE
    /\ editingEvent = <<>>
    /\ now = Clock0
    /\ seed = [id |-> "0"]
    /\ runs = <<>>
    /\ storage \in StoredItems
    /\ effects = <<"load", "save">>
    /\ queued = <<>>
    /\ searchQuery = <<>>
    /\ selectedCategory = <<>>
    /\ lastOp = [op |-> "mount", n |-> 0, mounts |-> 1, stored |-> storage,
                 memory |-> <<>>]

\* No effect is due and no state update is waiting for its render.
Idle == effects = <<>> /\ queued = <<>>

\* The load effect: it reads the item and hands the rebuilt events to
\* setState; the state changes with the next render.
LoadEffect ==
    /\ effects # <<>>
    /\ Head(effects) = "load"
    /\ LET loaded == LoadEvents(storage)
       IN  queued' = IF loaded.set THEN <<loaded.events>> ELSE <<>>
    /\ effects' = Tail(effects)
    /\ UNCHANGED <<storeVars, now, seed, runs, storage, filterVars>>

\* The save effect: it writes the events of the render it belongs to.
SaveEffect ==
    /\ effects # <<>>
    /\ Head(effects) = "save"
    /\ storage' = <<JsonStringify(events)>>
    /\ effects' = Tail(effects)
    /\ UNCHANGED <<storeVars, now, seed, runs, queued, filterVars>>

\* The render after the load effect's setState: state.events is the new
\* array, so the save effect is due again.
Render ==
    /\ effects = <<>>
    /\ queued # <<>>
    /\ events' = queued[1]
    /\ queued' = <<>>
    /\ effects' = <<"save">>
    /\ UNCHANGED <<isEventFormOpen, editingEvent, lastOp, now, seed, runs,
                   storage, filterVars>>

\* A mutating operation of the store on the mounted hook, with its render:
\* state.events is a new array (concat, map or filter), so the save effect
\* is due.
Mutation(op, newEvents) ==
    /\ Idle
    /\ lastOp.n < MaxStoredOps
    /\ events' = newEvents
    /\ isEventFormOpen' = (IF op = "moveEvent" THEN isEventFormOpen ELSE FALSE)
    /\ editingEvent' = (IF op = "moveEvent" THEN editingEvent ELSE <<>>)
    /\ effects' = <<"save">>
    /\ lastOp' = [lastOp EXCEPT !.op = op, !.n = @ + 1]
    /\ UNCHANGED <<now, seed, runs, storage, queued, filterVars>>

\* The page is opened again: the hook is mounted with its initial state and
\* both effects are due; the item is what the last session left.
Mount ==
    /\ Idle
    /\ lastOp.mounts < MaxMounts
    /\ events' = <<>>
    /\ isEventFormOpen' = FALSE
    /\ editingEvent' = <<>>
    /\ effects' = <<"load", "save">>
    /\ lastOp' = [op |-> "mount", n |-> lastOp.n, mounts |-> lastOp.mounts + 1,
                  stored |-> storage, memory |-> events]
    /\ UNCHANGED <<now, seed, runs, storage, queued, filterVars>>

NextPersist ==
    \/ LoadEffect
    \/ SaveEffect
    \/ Render
    \/ \E d \in Drafts : Mutation("addEvent", AddEventResult(events, d, now))
    \/ \E id \in TargetIds, p \in Patches :
            Mutation("updateEvent", UpdateEventResult(events, id, p))
    \/ \E id \in TargetIds : Mutation("deleteEvent", DeleteEventResult(events, id))
    \/ \E id \in TargetIds, d \in MoveDates :
            Mutation("moveEvent", MoveEventResult(events, id, d))
    \/ Mount

SpecPersist == InitPersist /\ [][NextPersist]_vars

-----------------------------------------------------------------------------
(* The event form (EventForm) on the store: events are created and edited  *)
(* by handleSubmit and deleted by handleDelete.  Text the form trims is a  *)
(* sequence of character codes.                                            *)

MaxSubmits == 2     \* submissions and deletions in one form behaviour

\* The white space String.prototype.trim removes (tab, line feed, vertical
\* tab, form feed, carriage return, space, no-break space).
WhiteSpace == {9, 10, 11, 12, 13, 32, 160}

\* String.prototype.trim.
RECURSIVE Trim(_)
Trim(s) ==
    IF s = <<>> THEN s
    ELSE IF Head(s) \in WhiteSpace THEN Trim(Tail(s))
    ELSE IF s[Len(s)] \in WhiteSpace THEN Trim(SubSeq(s, 1, Len(s) - 1))
    ELSE s

\* The form's initial fields for the selected day.
DefaultForm(date) ==
    [title |-> <<>>, description |-> <<>>, date |-> date,
     time |-> HHMM(9, 0), endTime |-> HHMM(10, 0), color |-> "#3B82F6",
     category |-> "",
     recurrence |-> [type |-> "none", interval |-> 1, daysOfWeek |-> <<>>]]

\* The fields the form's effect fills in from the event being edited.
FormOf(event) ==
    LET rule == IF Has(event, "recurrence") THEN event.recurrence ELSE <<>>
    IN  [title |-> event.title,
         description |-> IF Has(event, "description") THEN event.description
                         ELSE <<>>,
         date |-> event.date, time |-> event.time,
         endTime |-> IF Has(event, "endTime") /\ event.endTime # <<>>
                     THEN event.endTime ELSE HHMM(10, 0),
         color |-> event.color,
         category |-> IF Has(event, "category") THEN event.category ELSE "",
         recurrence |->
             Spread(Spread([type |-> IF Has(rule, "type") THEN rule.type
                                     ELSE "none",
                            interval |-> RuleInterval(rule),
                            daysOfWeek |-> IF Has(rule, "daysOfWeek")
                                           THEN rule.daysOfWeek ELSE <<>>],
                           [k \in DOMAIN rule \cap {"endDate"} |-> rule[k]]),
                    [k \in DOMAIN rule \cap {"occurrences"} |-> rule[k]])]

\* eventData of handleSubmit: the fields handed to onSave or onUpdate, and
\* the field carried as undefined (recurrence, for the type 'none').
SubmittedData(formData) ==
    LET fields == [title |-> Trim(formData.title),
                   description |-> Trim(formData.description),
                   date |-> formData.date, time |-> formData.time,
                   endTime |-> formData.endTime, color |-> formData.color,
                   category |-> formData.category]
    IN  IF formData.recurrence.type = "none"
        THEN [set |-> fields, unset |-> {"recurrence"}]
        ELSE [set |-> WithRecurrence(fields, formData.recurrence), unset |-> {}]

\* editingEvent?.id, "" standing for undefined.
EditingId(editing) == IF editing = <<>> THEN "" ELSE editing[1].id

\* The conflicts handleSubmit asks for.
SubmitConflicts(evs, editing, formData) ==
    CheckEventConflict(evs, Spread(SubmittedData(formData).set, [id |-> "temp"]),
                       EditingId(editing))

\* A faulty variant of handleSubmit: the title is tested without trim.
SubmitOutcome_NoTrim(evs, editing, formData) ==
    IF formData.title = <<>> THEN "titleRequired"
    ELSE IF Len(SubmitConflicts(evs, editing, formData)) > 0 THEN "conflict"
    ELSE IF editing # <<>> THEN "onUpdate"
    ELSE "onSave"

\* The branch handleSubmit takes: one of its two early returns, or the
\* callback it invokes.
SubmitOutcome(evs, editing, formData) ==
    IF Trim(formData.title) = <<>> THEN "titleRequired"
    ELSE IF Len(SubmitConflicts(evs, editing, formData)) > 0 THEN "conflict"
    ELSE IF editing # <<>> THEN "onUpdate"
    ELSE "onSave"

\* The fields typed into the form for a new event (on top of its defaults):
\* "Gym" on Thursday 10:00-11:00; "Standup" daily from Wednesday, three
\* times, 10:00-11:00; " Yoga " on Wednesday 09:00-10:00; a title of two
\* spaces; no title.
NewForms ==
    { Spread(DefaultForm(Thu),
             [title |-> <<71, 121, 109>>, category |-> "Health",
              time |-> HHMM(10, 0), endTime |-> HHMM(11, 0)]),
      Spread(DefaultForm(Wed),
             [title |-> <<83, 116, 97, 110, 100, 117, 112>>, category |-> "Work",
              description |-> <<68, 97, 105, 108, 121, 32>>,
              time |-> HHMM(10, 0), endTime |-> HHMM(11, 0),
              recurrence |-> [type |-> "daily", interval |-> 1,
                              daysOfWeek |-> <<>>, occurrences |-> 3]]),
      Spread(DefaultForm(Wed),
             [title |-> <<32, 89, 111, 103, 97, 32>>, category |-> "Health"]),
      Spread(DefaultForm(Wed), [title |-> <<32, 32>>]),
      DefaultForm(Clock0) }

\* The changes made to the fields of an event being edited: none, the
\* title blanked, another day, another time.
Edits ==
    { <<>>,
      [title |-> <<9>>],
      [date |-> Wed],
      [date |-> Thu],
      [time |-> HHMM(11, 0), endTime |-> HHMM(12, 0)],
      [time |-> HHMM(11, 1), endTime |-> HHMM(12, 0)] }

\* The fields of the form when it is submitted.
FormsOf(editing) ==
    IF editing = <<>> THEN NewForms
    ELSE {Spread(FormOf(editing[1]), e) : e \in Edits}

InitForm ==
    /\ events = <<>>
    /\ isEventFormOpen = FALSE
    /\ editingEvent = <<>>
    /\ now = Clock0
    /\ lastOp = [op |-> "init", n |-> 0]
    /\ seed = [id |-> "0"]
    /\ runs = <<>>
    /\ storage = <<>>
    /\ effects = <<>>
    /\ queued = <<>>
    /\ searchQuery = <<>>
    /\ selectedCategory = <<>>

\* openEventForm(event): event is <<>> (none) or <<a stored event>>.
OpenEventForm(event) ==
    /\ ~isEventFormOpen
    /\ isEventFormOpen' = TRUE
    /\ editingEvent' = event
    /\ UNCHANGED <<events, lastOp, now, seed, runs, persistVars, filterVars>>

CloseEventForm ==
    /\ isEventFormOpen
    /\ isEventFormOpen' = FALSE
    /\ editingEvent' = <<>>
    /\ UNCHANGED <<events, lastOp, now, seed, runs, persistVars, filterVars>>

\* handleSubmit with the form's fields: nothing but a toast on its early
\* returns, else updateEvent or addEvent (which also close the form).
HandleSubmit(formData) ==
    /\ isEventFormOpen
    /\ lastOp.n < MaxSubmits
    /\ LET outcome   == SubmitOutcome(events, editingEvent, formData)
           eventData == SubmittedData(formData)
       IN  /\ lastOp' = [op |-> "handleSubmit", n |-> lastOp.n + 1,
                         formData |-> formData, editing |-> editingEvent,
                         outcome |-> outcome]
           /\ CASE outcome = "onUpdate" ->
                     /\ events' = UpdateEventResult(events, editingEvent[1].id,
                                                    eventData)
                     /\ isEventFormOpen' = FALSE
                     /\ editingEvent' = <<>>
                [] outcome = "onSave" ->
                     /\ events' = AddEventResult(events, eventData.set, now)
                     /\ isEventFormOpen' = FALSE
                     /\ editingEvent' = <<>>
                [] OTHER -> UNCHANGED <<events, isEventFormOpen, editingEvent>>
    /\ UNCHANGED <<now, seed, runs, persistVars, filterVars>>

\* handleDelete: deleteEvent for the event being edited.
HandleDelete ==
    /\ isEventFormOpen
    /\ editingEvent # <<>>
    /\ lastOp.n < MaxSubmits
    /\ events' = DeleteEventResult(events, editingEvent[1].id)
    /\ isEventFormOpen' = FALSE
    /\ editingEvent' = <<>>
    /\ lastOp' = [op |-> "handleDelete", n |-> lastOp.n + 1,
                  id |-> editingEvent[1].id]
    /\ UNCHANGED <<now, seed, runs, persistVars, filterVars>>

NextForm ==
    \/ Tick
    \/ \E e \in {<<>>} \cup {<<events[i]>> : i \in 1..Len(events)} :
            OpenEventForm(e)
    \/ CloseEventForm
    \/ \E f \in FormsOf(editingEvent) : HandleSubmit(f)
    \/ HandleDelete

SpecForm == InitForm /\ [][NextForm]_vars

-----------------------------------------------------------------------------
(* filteredEvents: the stored events that match the search text and the    *)
(* selected category.                                                      *)

\* String.prototype.toLowerCase on character codes (the letters A-Z).
ToLowerCase(s) ==
    [i \in 1..Len(s) |-> IF s[i] \in 65..90 THEN s[i] + 32 ELSE s[i]]

\* String.prototype.includes.
StrIncludes(s, part) ==
    \E i \in 0..(Len(s) - Len(part)) : SubSeq(s, i + 1, i + Len(part)) = part

\* A faulty variant of the filter callback: the search is case-sensitive.
Matches_CaseSensitive(event, query, category) ==
    LET matchesSearch ==
            \/ query = <<>>
            \/ StrIncludes(event.title, query)
            \/ Has(event, "description") /\ StrIncludes(event.description, query)
        matchesCategory ==
            \/ category = <<>>
            \/ category[1] = ""
            \/ Has(event, "category") /\ event.category = category[1]
    IN  matchesSearch /\ matchesCategory

\* The filter callback: !x is true of "" and of null, and
\* event.description?.toLowerCase() is undefined without a description.
Matches(event, query, category) ==
    LET matchesSearch ==
            \/ query = <<>>
            \/ StrIncludes(ToLowerCase(event.title), ToLowerCase(query))
            \/ /\ Has(event, "description")
               /\ StrIncludes(ToLowerCase(event.description), ToLowerCase(query))
        matchesCategory ==
            \/ category = <<>>
            \/ category[1] = ""
            \/ Has(event, "category") /\ event.category = category[1]
    IN  matchesSearch /\ matchesCategory

\* filteredEvents for the state's events, searchQuery and selectedCategory.
FilteredEvents(evs, query, category) ==
    LET Keep(event) == Matches(event, query, category)
    IN  SelectSeq(evs, Keep)

\* The events in the store: those the form submits ("Gym"/Health,
\* "Standup"/Work with the description "Daily", "Yoga"/Health), and
\* "Gym" as a caller that leaves out the description adds it.
FilterDrafts ==
    {SubmittedData(f).set : f \in {g \in NewForms : Trim(g.title) # <<>>}}
    \cup {Without(SubmittedData(f).set, {"description"}) :
            f \in {g \in NewForms : g.title = <<71, 121, 109>>}}

\* The search texts typed: "", "gym", "GYM", "x", "daily", "a".
Queries ==
    { <<>>, <<103, 121, 109>>, <<71, 89, 77>>, <<120>>,
      <<100, 97, 105, 108, 121>>, <<97>> }

\* The categories selected: none (null), "", and category names.
Categories == {<<>>, <<"">>, <<"Work">>, <<"Health">>, <<"work">>}

SetSearchQuery(query) ==
    /\ searchQuery' = query
    /\ UNCHANGED <<storeVars, now, seed, runs, persistVars, selectedCategory>>

SetSelectedCategory(category) ==
    /\ selectedCategory' = category
    /\ UNCHANGED <<storeVars, now, seed, runs, persistVars, searchQuery>>

NextFilter ==
    \/ \E d \in FilterDrafts : AddEvent(d)
    \/ \E id \in TargetIds : DeleteEvent(id)
    \/ \E q \in Queries : SetSearchQuery(q)
    \/ \E c \in Categories : SetSelectedCategory(c)

SpecFilter == Init /\ [][NextFilter]_vars

-----------------------------------------------------------------------------
(* Properties of generateRecurringEvents, checked under SpecExpand.        *)

Rule == seed.recurrence

RunIds == 1..Len(runs)

\* The day of the month of a date.
DayOfMonth(date) == CivilFromDays(date.day).d

\* C2 as claimed: expansion is a pure function of the seed and its rule:
\* all calls made for one seed, at whatever time, return the same sequence.
C2_PureOfSeedAndRule ==
    \A i, j \in RunIds : runs[i].out = runs[j].out

\* C2 as amended: calls made for one seed at different times return the same
\* sequence when the rule is "none" or carries an endDate; without an
\* endDate the result also depends on the time of the call.
C2_PureGivenEndDate ==
    (Rule.type = "none" \/ Has(Rule, "endDate")) =>
        \A i, j \in RunIds : runs[i].out = runs[j].out

\* Two calls a day apart for a recurring seed with an endDate.
C2_Witness ==
    /\ Len(runs) = 2
    /\ runs[1].at # runs[2].at
    /\ Rule.type # "none"
    /\ Has(Rule, "endDate")
    /\ Len(runs[1].out) > 1

C3_Case == Rule.type = "daily" /\ ~Has(Rule, "endDate")
           /\ Has(Rule, "occurrences") /\ Rule.occurrences = 5

\* C3 as claimed: a daily rule with occurrences = 5 and no endDate expands to
\* exactly 5 instances, for every seed date and every time of the call.
C3_AlwaysFive ==
    C3_Case => \A i \in RunIds : Len(runs[i].out) = 5

\* C3 as amended: a daily rule with occurrences = 5 and no endDate expands to
\* the seed plus those of its next 4 occurrences that are not after the
\* default end date, twelve months after the time of the call: 5 instances
\* when the fifth is not after it, fewer otherwise.
C3_FiveUpToDefaultEnd ==
    C3_Case => \A i \in RunIds :
        LET end   == AddMonths(runs[i].at, 12)
            fifth == AddDays(seed.date, 4 * Rule.interval)
            kept  == {k \in 1..4 :
                        ~IsAfter(AddDays(seed.date, k * Rule.interval), end)}
        IN  /\ Len(runs[i].out) = 1 + Cardinality(kept)
            /\ ~IsAfter(fifth, end) => Len(runs[i].out) = 5
            /\ IsAfter(fifth, end) => Len(runs[i].out) < 5

\* A daily rule capped at 5, expanded to 5 instances although the default
\* end date would allow many more.
C3_Witness ==
    /\ C3_Case
    /\ \E i \in RunIds :
          /\ Len(runs[i].out) = 5
          /\ IsBefore(AddDays(seed.date, 100), AddMonths(runs[i].at, 12))

\* C4: under a monthly rule every generated occurrence falls on the seed's
\* day of the month, also for seeds on the 29th, 30th and 31st.
C4_MonthlySameDayOfMonth ==
    Rule.type = "monthly" =>
        \A i \in RunIds : \A k \in 1..Len(runs[i].out) :
            DayOfMonth(runs[i].out[k].date) = DayOfMonth(seed.date)

C5_Case == /\ Rule.type = "daily" /\ Rule.interval = 1
           /\ ~Has(Rule, "occurrences")
           /\ seed.date.ms = 0
           /\ Has(Rule, "endDate") /\ Rule.endDate = AddDays(seed.date, 3)

\* C5: a daily rule with interval 1, endDate = seed date + 3 days (both
\* date-only) and no occurrences expands to exactly the seed and the three
\* following days: the day of endDate is included, no instance is after it.
C5_EndDateInclusive ==
    C5_Case => \A i \in RunIds :
        LET out == runs[i].out
        IN  /\ Len(out) = 4
            /\ \A k \in 1..4 : out[k].date = AddDays(seed.date, k - 1)
            /\ out[4].date = Rule.endDate
            /\ \A k \in 1..Len(out) : ~IsAfter(out[k].date, Rule.endDate)

\* Such a rule has been expanded, and its last instance is on endDate.
C5_Witness ==
    /\ C5_Case
    /\ \E i \in RunIds : runs[i].out[Len(runs[i].out)].date.day = Rule.endDate.day

C6_Case == Rule.type = "weekly" /\ Len(Rule.daysOfWeek) > 0

\* C6: under a weekly rule with listed weekdays, each generated occurrence is
\* the nearest calendar day strictly after the previous instance whose
\* weekday is listed, whatever the interval: dates strictly increase, the
\* weekday is listed, and no listed weekday lies in between.  A Wednesday
\* seed with Monday and Friday listed is followed by the Friday two days on
\* and then the Monday after it.
C6_WeeklyNextListedDay ==
    C6_Case => \A i \in RunIds :
        LET out  == runs[i].out
            days == {Rule.daysOfWeek[n] : n \in 1..Len(Rule.daysOfWeek)}
        IN  /\ \A k \in 2..Len(out) :
                  /\ out[k].date.day > out[k - 1].date.day
                  /\ out[k].date.day - out[k - 1].date.day <= 7
                  /\ (out[k].date.day + 4) % 7 \in days
                  /\ \A d \in (out[k - 1].date.day + 1)..(out[k].date.day - 1) :
                        (d + 4) % 7 \notin days
                  /\ out[k].date.ms = seed.date.ms
            /\ (seed.date.day = DaysFromCivil(2024, 1, 31) /\ days = {1, 5}
                    /\ Len(out) >= 3) =>
                  /\ out[2].date.day = DaysFromCivil(2024, 2, 2)
                  /\ out[3].date.day = DaysFromCivil(2024, 2, 5)

\* The Wednesday seed with Monday and Friday listed and interval 2 has been
\* expanded to at least its first two occurrences.
C6_Witness ==
    /\ C6_Case
    /\ seed.date = Wed
    /\ Rule.daysOfWeek = <<1, 5>>
    /\ Rule.interval = 2
    /\ \E i \in RunIds : Len(runs[i].out) >= 3

\* C7: the first element of an expansion is the seed itself, without
\* isRecurring and originalDate; every other element is the seed with
\* isRecurring = TRUE, originalDate = the seed's date, its own date, and
\* the id <seed id>-<its date as yyyy-MM-dd>.
C7_SeedFirstThenCopies ==
    \A i \in RunIds :
        LET out == runs[i].out
        IN  /\ Len(out) >= 1
            /\ out[1] = seed
            /\ ~Has(out[1], "isRecurring") /\ ~Has(out[1], "originalDate")
            /\ \A k \in 2..Len(out) :
                  /\ out[k].isRecurring = TRUE
                  /\ out[k].originalDate = seed.date
                  /\ out[k].id = seed.id \o "-" \o FormatYMD(out[k].date)
                  /\ Without(out[k], {"id", "date", "originalDate", "isRecurring"})
                        = Without(seed, {"id", "date"})
            /\ (seed.date = Wed /\ Rule.type = "daily" /\ Rule.interval = 1
                    /\ Len(out) >= 2) =>
                  out[2].id = "1706689800000-2024-02-01"

\* A recurring seed has been expanded to more than the seed.
C7_Witness ==
    \E i \in RunIds :
        /\ Len(runs[i].out) >= 3
        /\ runs[i].out[3].id = "1706689800000-2024-02-02"

\* The cap on the number of instances: the rule's occurrences, 365 without.
Cap == IF Has(Rule, "occurrences") /\ Rule.occurrences >= 1
       THEN Rule.occurrences ELSE 365

\* The effective end date of a call made at time `at`.
EffectiveEnd(at) ==
    IF Has(Rule, "endDate") THEN Rule.endDate ELSE AddMonths(at, 12)

\* C16: for a rule with a positive interval and weekdays within 0-6 every
\* call returns (the loop has left within maxOccurrences iterations), with
\* at most maxOccurrences instances, the seed counted, when occurrences >= 1
\* is given and at most 365 when it is not, and with no generated instance
\* after the effective end date (endDate, or twelve months after the time
\* of the call); it stops no earlier than a cap demands: a result shorter
\* than the cap ends where the last instance is not before the end date or
\* the next occurrence would be after it.
C16_BothCaps ==
    ( /\ Rule.type \in RecurrenceTypes
      /\ Rule.interval >= 1
      /\ \A n \in 1..Len(Rule.daysOfWeek) : Rule.daysOfWeek[n] \in 0..6 )
    => \A i \in RunIds :
          LET out  == runs[i].out
              end  == EffectiveEnd(runs[i].at)
              last == out[Len(out)].date
          IN  /\ Len(out) >= 1
              /\ Len(out) <= Cap
              /\ \A k \in 2..Len(out) : ~IsAfter(out[k].date, end)
              /\ Len(out) < Cap =>
                    \/ ~IsBefore(last, end)
                    \/ IsAfter(NextDate(Rule, last), end)

\* A daily rule without occurrences and endDate has been expanded twice, to
\* 365 instances each time, the last of them more than a day before the
\* default end date.
C16_Witness ==
    /\ Rule.type = "daily" /\ Rule.interval = 1
    /\ ~Has(Rule, "occurrences") /\ ~Has(Rule, "endDate")
    /\ Len(runs) = 2
    /\ Len(runs[1].out) = 365
    /\ IsBefore(AddDays(runs[1].out[365].date, 1), EffectiveEnd(runs[1].at))
    /\ Len(runs[2].out) = 365

-----------------------------------------------------------------------------
(* Properties of the store, checked under Spec.                            *)

EventIds == 1..Len(events)

\* The step just taken is the mutation `op`, called with the identity id.
Called(op) == lastOp'.n = lastOp.n + 1 /\ lastOp'.op = op

\* Minutes since midnight of a well-formed "HH:MM".
Minutes(t) ==
    ((t[1] - 48) * 10 + (t[2] - 48)) * 60 + (t[4] - 48) * 10 + (t[5] - 48)

\* The end of an event's interval: its endTime, or its start without one.
IntervalEnd(e) ==
    IF "endTime" \in DOMAIN e /\ Len(e.endTime) = 5 THEN e.endTime ELSE e.time

\* C1: no two stored instances have the same identity, after any sequence of
\* add, update, delete and move and whatever the clock reads at each add.
C1_UniqueIds ==
    \A i, j \in EventIds : i # j => events[i].id # events[j].id

\* C8: checkEventConflict returns, in store order, exactly the stored
\* instances that are not the excluded identity, are on the candidate's
\* calendar day and whose interval [start, end] meets the candidate's, ends
\* included: 09:00-10:00 conflicts with a 10:00-11:00 candidate, 09:00-09:59
\* does not, and an instance on another day never does.
C8_ConflictsExact ==
    lastOp.op = "checkEventConflict" =>
        LET c == lastOp.newEvent
            x == lastOp.excludeId
            Expected(e) ==
                /\ x = "" \/ e.id # x
                /\ CivilFromDays(e.date.day) = CivilFromDays(c.date.day)
                /\ Minutes(e.time) <= Minutes(IntervalEnd(c))
                /\ Minutes(IntervalEnd(e)) >= Minutes(c.time)
            Reported(e) == \E k \in 1..Len(lastOp.result) : lastOp.result[k] = e
        IN  /\ lastOp.result = SelectSeq(events, Expected)
            /\ \A i \in EventIds :
                  LET e == events[i]
                      sameDay == FormatYMD(e.date) = FormatYMD(c.date)
                      tenToEleven == c.time = HHMM(10, 0) /\ c.endTime = HHMM(11, 0)
                  IN  /\ ~sameDay => ~Reported(e)
                      /\ (sameDay /\ tenToEleven /\ e.id # x /\ e.time = HHMM(9, 0)
                            /\ e.endTime = HHMM(10, 0)) => Reported(e)
                      /\ (sameDay /\ tenToEleven /\ e.time = HHMM(9, 0)
                            /\ e.endTime = HHMM(9, 59)) => ~Reported(e)

\* A 10:00-11:00 candidate has been checked against a store holding a
\* 09:00-10:00 and a 09:00-09:59 instance on its day and an instance on
\* another day: only the first is reported.
C8_Witness ==
    /\ lastOp.op = "checkEventConflict"
    /\ lastOp.newEvent.time = HHMM(10, 0)
    /\ lastOp.newEvent.endTime = HHMM(11, 0)
    /\ \E i, j, k \in EventIds :
          /\ events[i].endTime = HHMM(10, 0)
          /\ events[j].endTime = HHMM(9, 59)
          /\ IsSameDay(events[i].date, lastOp.newEvent.date)
          /\ IsSameDay(events[j].date, lastOp.newEvent.date)
          /\ ~IsSameDay(events[k].date, lastOp.newEvent.date)
          /\ lastOp.result = <<events[i]>>

\* C9: updateEvent, deleteEvent and moveEvent called with an identity that
\* no stored instance has leave the collection as it is.
C9_NoOpOnMissingId ==
    [][ ( /\ Called("updateEvent") \/ Called("deleteEvent") \/ Called("moveEvent")
          /\ lastOp'.id \notin IdsOf(events) )
        => events' = events ]_vars

\* An operation has been called with an identity that a non-empty store
\* does not hold.
C9_Witness ==
    /\ lastOp.op \in {"updateEvent", "deleteEvent", "moveEvent"}
    /\ lastOp.id = "nonexistent"
    /\ Len(events) >= 3

\* C10: updateEvent, deleteEvent and moveEvent touch only the instances that
\* carry the given identity: every other instance stays as it is and where
\* it is; update and move keep the number of instances (the expander is not
\* run again), update merges the given fields into the target, move changes
\* only its date, and delete removes the target and nothing else.  The
\* instances one addEvent appends (a series) have pairwise different
\* identities, so within a series the target is a single instance.
C10_OnlyTheTarget ==
    [][ LET id == lastOp'.id
            Others == {i \in EventIds : events[i].id # id}
        IN  /\ Called("updateEvent") =>
                  /\ Len(events') = Len(events)
                  /\ \A i \in Others : events'[i] = events[i]
                  /\ \A i \in EventIds \ Others :
                        /\ \A f \in DOMAIN lastOp'.eventData.set :
                              events'[i][f] = lastOp'.eventData.set[f]
                        /\ DOMAIN events'[i] \cap lastOp'.eventData.unset = {}
                        /\ \A f \in DOMAIN events[i] \ (DOMAIN lastOp'.eventData.set
                                                        \cup lastOp'.eventData.unset) :
                              f \in DOMAIN events'[i] /\ events'[i][f] = events[i][f]
            /\ Called("moveEvent") =>
                  /\ Len(events') = Len(events)
                  /\ \A i \in Others : events'[i] = events[i]
                  /\ \A i \in EventIds \ Others :
                        /\ events'[i].date = lastOp'.newDate
                        /\ DOMAIN events'[i] = DOMAIN events[i]
                        /\ \A f \in DOMAIN events[i] \ {"date"} :
                              events'[i][f] = events[i][f]
            /\ Called("deleteEvent") =>
                  /\ Len(events') = Cardinality(Others)
                  /\ \A k \in 1..Len(events') : events'[k].id # id
                  /\ \A i \in Others :
                        events'[Cardinality({j \in Others : j <= i})] = events[i]
            /\ Called("addEvent") =>
                  /\ Len(events') > Len(events)
                  /\ \A i \in EventIds : events'[i] = events[i]
                  /\ \A i, j \in (Len(events) + 1)..Len(events') :
                        i # j => events'[i].id # events'[j].id
      ]_vars

\* A generated occurrence has been updated and its seed and sibling, which
\* come right before and after it, have not.
C10_Witness ==
    /\ lastOp.op = "updateEvent"
    /\ \E i \in EventIds :
          /\ events[i].id = lastOp.id
          /\ events[i].title = "Yoga"
          /\ "isRecurring" \in DOMAIN events[i]
          /\ i > 1 /\ i < Len(events)
          /\ events[i - 1].title = "Standup"
          /\ events[i + 1].title = "Standup"
          /\ events[i + 1].originalDate = events[i].originalDate

-----------------------------------------------------------------------------
(* Properties of the stored item, checked under SpecPersist.               *)

\* Every date of the collection is a valid date.
ValidDates(evs) ==
    \A i \in 1..Len(evs) :
        /\ evs[i].date # InvalidDate
        /\ Has(evs[i], "originalDate") => evs[i].originalDate # InvalidDate
        /\ (Has(evs[i], "recurrence") /\ Has(evs[i].recurrence, "endDate"))
              => evs[i].recurrence.endDate # InvalidDate

\* C11: saving a collection of events with valid dates and loading it again
\* gives the same collection: as many instances in the same order, with the
\* same identities and field values, and date, originalDate and
\* recurrence.endDate rebuilt as dates equal to the originals.  It holds of
\* the collection in memory at any time, and of the collection a mounted
\* hook ends up with against the one the session before it left.
C11_RoundTrip ==
    /\ ValidDates(events) =>
          LoadEvents(<<JsonStringify(events)>>) = [set |-> TRUE, events |-> events]
    /\ (lastOp.op = "mount" /\ lastOp.mounts > 1 /\ Idle
            /\ ValidDates(lastOp.memory)) =>
          /\ Len(events) = Len(lastOp.memory)
          /\ \A i \in 1..Len(events) :
                /\ events[i].id = lastOp.memory[i].id
                /\ events[i].date = lastOp.memory[i].date
                /\ events[i] = lastOp.memory[i]

\* A hook mounted again has loaded what the last session left: a date with
\* a time of day, generated occurrences with their originalDate, and a rule
\* with an endDate.
C11_Witness ==
    /\ lastOp.op = "mount" /\ lastOp.mounts > 1 /\ Idle
    /\ events = lastOp.memory
    /\ \E i, j, k \in 1..Len(events) :
          /\ events[i].date.ms > 0
          /\ Has(events[j], "originalDate")
          /\ events[j].originalDate.day < events[j].date.day
          /\ Has(events[k], "recurrence")
          /\ Has(events[k].recurrence, "endDate")
          /\ events[k].recurrence.endDate = AddDays(Thu, 4)

\* The stored text of one instance: an object with the instance's fields,
\* each date written as a string that reads back as that date (null for an
\* invalid date), every other field as it is.
StoredAs(item, event) ==
    LET DateAs(v, date) ==
            IF date = InvalidDate THEN Has(v, "null")
            ELSE Has(v, "string") /\ ParseDate(v.string) = date
    IN  /\ Has(item, "object")
        /\ DOMAIN item.object = DOMAIN event
        /\ \A k \in DOMAIN event \ {"date", "originalDate", "recurrence"} :
              item.object[k] = event[k]
        /\ \A k \in DOMAIN event \cap {"date", "originalDate"} :
              DateAs(item.object[k], event[k])
        /\ Has(event, "recurrence") =>
              /\ DOMAIN item.object.recurrence = DOMAIN event.recurrence
              /\ \A k \in DOMAIN event.recurrence \ {"endDate"} :
                    item.object.recurrence[k] = event.recurrence[k]
              /\ Has(event.recurrence, "endDate") =>
                    DateAs(item.object.recurrence.endDate, event.recurrence.endDate)

\* The stored item is the text of the whole collection evs, in order.
HoldsAll(item, evs) ==
    /\ item # <<>>
    /\ item[1].parses
    /\ Has(item[1].value, "array")
    /\ Len(item[1].value.array) = Len(evs)
    /\ \A i \in 1..Len(evs) : StoredAs(item[1].value.array[i], evs[i])

\* C12: whenever no effect is due (after the mount and after every add,
\* update, delete and move with its save effect) the stored item is the
\* text of the entire collection in memory: every instance, in order.
C12_StorageAgrees ==
    Idle => HoldsAll(storage, events)

\* Each kind of mutation has been followed by its save effect on a
\* collection of several instances.
C12_Witness ==
    /\ Idle
    /\ lastOp.op = "moveEvent"
    /\ lastOp.n = 2
    /\ Len(events) >= 3
    /\ \E i \in 1..Len(events) : events[i].date = AddDays(Thu, 1)

\* The stored item is a sequence of event records: an array of objects
\* with an id, a title, a start time and a date that reads as a date.
WellFormed(item) ==
    /\ item # <<>>
    /\ item[1].parses
    /\ Has(item[1].value, "array")
    /\ \A i \in 1..Len(item[1].value.array) :
          LET v == item[1].value.array[i]
          IN  /\ Has(v, "object")
              /\ {"id", "title", "date", "time"} \subseteq DOMAIN v.object
              /\ Has(v.object.date, "string")
              /\ ParseDate(v.object.date.string) # InvalidDate

\* The identities written in a well-formed item.
StoredIds(item) ==
    {item[1].value.array[i].object.id : i \in 1..Len(item[1].value.array)}

\* C14: a hook mounted on a stored item that is missing or malformed (no
\* text, text that does not parse, or not a sequence of event records) has
\* an empty collection once its effects have run.
C14_StartsEmpty ==
    (lastOp.op = "mount" /\ Idle /\ ~WellFormed(lastOp.stored)) => events = <<>>

\* C18: from the mount on a well-formed, non-empty stored collection until
\* the first operation, the stored item holds the events it held at the
\* mount at every step: it is never the text of the empty initial state.
C18_StoredEventsKept ==
    (lastOp.op = "mount" /\ WellFormed(lastOp.stored)
        /\ StoredIds(lastOp.stored) # {}) =>
        /\ WellFormed(storage)
        /\ StoredIds(lastOp.stored) \subseteq StoredIds(storage)

-----------------------------------------------------------------------------
(* Properties of the form's submissions, checked under SpecForm.           *)

\* The step just taken is a call of handleSubmit.
Submitted == lastOp'.n = lastOp.n + 1 /\ lastOp'.op = "handleSubmit"

\* Every character of s is white space (s may be empty).
Blank(s) == \A i \in 1..Len(s) : s[i] \in WhiteSpace

\* Two instances are on one calendar day and their intervals [start, end]
\* meet, ends included.
Overlap(e1, e2) ==
    /\ FormatYMD(e1.date) = FormatYMD(e2.date)
    /\ Minutes(e1.time) <= Minutes(IntervalEnd(e2))
    /\ Minutes(e2.time) <= Minutes(IntervalEnd(e1))

\* C13: a submission whose title is empty or all white space, or whose
\* candidate (date, start, end) overlaps a stored instance other than the
\* one being edited, invokes neither onSave nor onUpdate and leaves the
\* collection (and the open form) as it is.
C13_RejectedSubmitNoMutation ==
    [][ ( /\ Submitted
          /\ \/ Blank(lastOp'.formData.title)
             \/ \E i \in 1..Len(events) :
                   /\ editingEvent = <<>> \/ events[i].id # editingEvent[1].id
                   /\ Overlap(events[i], lastOp'.formData) )
        => /\ events' = events
           /\ lastOp'.outcome \in {"titleRequired", "conflict"}
           /\ isEventFormOpen' /\ editingEvent' = editingEvent ]_vars

\* An edit of one instance of a series of three has been refused for its
\* conflict with another instance of the series.
C13_Witness ==
    /\ lastOp.op = "handleSubmit"
    /\ lastOp.outcome = "conflict"
    /\ lastOp.editing # <<>>
    /\ Len(events) = 3
    /\ \E i \in 1..Len(events) :
          /\ events[i].id # lastOp.editing[1].id
          /\ Overlap(events[i], lastOp.formData)

\* C17: with every creation and edit made by the form's submission and no
\* move, no two stored instances (generated occurrences included) are on
\* one calendar day with intervals that meet.
C17_NoDoubleBooking ==
    \A i, j \in 1..Len(events) : i # j => ~Overlap(events[i], events[j])

-----------------------------------------------------------------------------
(* Properties of filteredEvents, checked under SpecFilter.                 *)

\* Two characters are the same letter in either case, or the same
\* character.
SameCaseless(c1, c2) ==
    \/ c1 = c2
    \/ c1 \in 65..90 /\ c2 = c1 + 32
    \/ c2 \in 65..90 /\ c1 = c2 + 32

\* text contains part, letters compared without regard to case.
ContainsCaseless(text, part) ==
    \E from \in 1..(Len(text) + 1) :
        /\ from + Len(part) - 1 <= Len(text)
        /\ \A k \in 1..Len(part) : SameCaseless(text[from + k - 1], part[k])

\* The titles of a sequence of events.
Titles(evs) == {evs[i].title : i \in 1..Len(evs)}

\* C15: the filtered list is, in store order, exactly the stored instances
\* for which (the search text is empty, or the title contains it, or the
\* description contains it, letters compared case-insensitively) and (no
\* category is selected (null or ""), or the instance's category is the
\* selected one, exactly).  With "Gym"/Health and "Standup"/Work stored: "gym" and no
\* category gives the Gym events only, "" and Work gives the Standup events
\* only, "x" and Work gives nothing.
C15_FilterExact ==
    LET Expected(e) ==
            /\ \/ searchQuery = <<>>
               \/ ContainsCaseless(e.title, searchQuery)
               \/ "description" \in DOMAIN e
                    /\ ContainsCaseless(e.description, searchQuery)
            /\ \/ selectedCategory \in {<<>>, <<"">>}
               \/ "category" \in DOMAIN e /\ <<e.category>> = selectedCategory
        filtered == FilteredEvents(events, searchQuery, selectedCategory)
        Gym      == <<71, 121, 109>>
        Standup  == <<83, 116, 97, 110, 100, 117, 112>>
    IN  /\ filtered = SelectSeq(events, Expected)
        /\ ({Gym, Standup} \subseteq Titles(events)) =>
              /\ (searchQuery = <<103, 121, 109>> /\ selectedCategory = <<>>)
                    => Titles(filtered) = {Gym}
              /\ (searchQuery = <<>> /\ selectedCategory = <<"Work">>)
                    => Titles(filtered) = {Standup}
              /\ (searchQuery = <<120>> /\ selectedCategory = <<"Work">>)
                    => filtered = <<>>

\* "Gym"/Health and "Standup"/Work are stored and the search text "gym"
\* with no category keeps an event out of several.
C15_Witness ==
    /\ searchQuery = <<103, 121, 109>>
    /\ selectedCategory = <<>>
    /\ {<<71, 121, 109>>, <<83, 116, 97, 110, 100, 117, 112>>}
          \subseteq Titles(events)
    /\ Len(FilteredEvents(events, searchQuery, selectedCategory)) = 1
    /\ Len(events) >= 4

=============================================================================
